---- MODULE Spec2Model ----
(***************************************************************************)
(* Model of the 3D maze generator (maze_gen.py) and of the reinforcement-  *)
(* learning environment built on it (env.py).                              *)
(*                                                                         *)
(* Three specifications share the definitions below:                       *)
(*   GenSpec  runs generate_maze one loop iteration at a time on inputs    *)
(*            drawn in GenInit;                                            *)
(*   Spec     is the environment: the state after Maze3DEnv.__init__, and  *)
(*            the operations reset, step and other uses of the process-    *)
(*            wide pseudorandom generator;                                 *)
(*   TwoSpec  is two environments in one process, their resets and steps   *)
(*            interleaved.                                                 *)
(*                                                                         *)
(* Rewards are integers counted in hundredths (-0.01 is -1, 10.0 is 1000). *)
(***************************************************************************)
EXTENDS Integers, Sequences, FiniteSets, TLC

VARIABLES
    rng,        \* state of the process-wide generator of module random
    gen,        \* locals of one call of generate_maze (GenSpec)
    sx, sy, sz, max_steps, seed,            \* Maze3DEnv configuration
    grid, agent, goal, steps, last_move,    \* Maze3DEnv episode state
    reward, done,       \* fields of the StepResult of the episode's last step
    action,             \* the argument of the episode's last step
    last_op,            \* the last operation performed on the environment
    other               \* a second Maze3DEnv instance of the process (TwoSpec)

envvars == <<sx, sy, sz, max_steps, seed, grid, agent, goal, steps,
             last_move, reward, done, last_op, action>>
vars == <<rng, gen, sx, sy, sz, max_steps, seed, grid, agent, goal, steps,
          last_move, reward, done, last_op, action, other>>

(***************************************************************************)
(* Bounds of the model.                                                    *)
(***************************************************************************)
\* requested dimensions range over 3..MaxDim
MaxDim == 4
\* max_steps ranges over 0..MaxMaxSteps
MaxMaxSteps == 3
\* step is not called once the counter is at StepCap
StepCap == 3
\* actions range over -ExtraAct .. 5 + ExtraAct
ExtraAct == 1
\* the steps TwoSpec follows in an episode of either of its two instances
TwoStepCap == 1

Dims == 3..MaxDim

(***************************************************************************)
(* Constants of the program.                                               *)
(***************************************************************************)
WALL == 1
FREE == 0
\* NoSeed stands for seed = None
NoSeed == -1
NumActions == 6

Seeds == {0, 1, 42}
SeedOpts == Seeds \cup {NoSeed}

ZeroVec == <<0, 0, 0>>

DIRS == << <<1, 0, 0>>, <<-1, 0, 0>>, <<0, 1, 0>>,
           <<0, -1, 0>>, <<0, 0, 1>>, <<0, 0, -1>> >>

Abs(n) == IF n < 0 THEN -n ELSE n

(***************************************************************************)
(* The pseudorandom generator.  random.seed(s) puts the Mersenne Twister   *)
(* in a state that depends on s only; MTWords[s][i] holds the top three    *)
(* bits of the i-th 32-bit word it then produces (getrandbits(k), k <= 3,  *)
(* returns the top k bits of one word).  A generator that was never        *)
(* seeded, or whose tabulated words are used up, is in the state Unknown:  *)
(* every draw from it can return any value.                                *)
(***************************************************************************)
MTWords ==
    (0 :> <<6, 3, 6, 7, 3, 0, 2, 7, 4, 3, 3, 7, 6, 6, 2, 7, 3, 2, 4, 7, 7, 1,
            4, 1, 2, 1, 6, 0, 4, 6, 2, 7, 7, 4, 7, 5, 6, 4, 7, 1, 2, 0, 5, 0,
            7, 6, 5, 2, 3, 4, 0, 2, 3, 2, 4, 5, 7, 1, 7, 4, 3, 3, 6, 4>>) @@
    (1 :> <<1, 4, 6, 6, 6, 0, 2, 0, 3, 6, 3, 3, 5, 3, 6, 1, 0, 3, 0, 7, 6, 3,
            3, 4, 6, 6, 0, 5, 3, 2, 5, 6, 1, 4, 7, 0, 7, 2, 0, 0, 0, 5, 4, 0,
            7, 7, 3, 5, 1, 7, 3, 5, 0, 4, 1, 6, 3, 7, 3, 4, 1, 2, 1, 5>>) @@
    (42 :> <<5, 0, 0, 5, 2, 1, 1, 1, 5, 0, 5, 5, 7, 4, 0, 4, 3, 0, 0, 0, 1, 1,
             4, 4, 0, 4, 1, 5, 5, 5, 4, 3, 1, 3, 4, 2, 6, 6, 0, 6, 6, 1, 5, 3,
             2, 2, 1, 1, 7, 6, 2, 0, 0, 3, 0, 2, 6, 2, 4, 2, 6, 0, 5, 3>>)

Unknown == [seed |-> NoSeed, pos |-> 0]

\* random.seed(s)
random_seed(s) == [seed |-> s, pos |-> 0]

\* the generator after one more 32-bit word was taken from it
Advance(r) ==
    IF r.seed = NoSeed THEN Unknown
    ELSE IF r.pos + 1 < Len(MTWords[r.seed]) THEN [r EXCEPT !.pos = @ + 1]
    ELSE Unknown

\* random.getrandbits(k) for k in 1..3: the possible (value, generator) pairs
getrandbits(k, r) ==
    IF r.seed = NoSeed
    THEN {[val |-> v, rng |-> Unknown] : v \in 0..(2^k - 1)}
    ELSE {[val |-> MTWords[r.seed][r.pos + 1] \div 2^(3 - k),
           rng |-> Advance(r)]}

\* int.bit_length for 1..7
bit_length(n) == IF n < 2 THEN 1 ELSE IF n < 4 THEN 2 ELSE 3

\* Random._randbelow_with_getrandbits(n): draw k bits until the value is < n
RECURSIVE randbelow(_, _)
randbelow(n, r) ==
    UNION { IF d.val < n THEN {d}
            ELSE IF r.seed = NoSeed THEN {}
            ELSE randbelow(n, d.rng)
          : d \in getrandbits(bit_length(n), r) }

Swap(x, i, j) == [x EXCEPT ![i] = x[j], ![j] = x[i]]

\* random.shuffle(x): for i in reversed(range(1, len(x))):
\*                        j = randbelow(i + 1); x[i], x[j] = x[j], x[i]
\* (i is the 0-based index of the source)
RECURSIVE shuffle_from(_, _, _)
shuffle_from(x, i, r) ==
    IF i < 1 THEN {[x |-> x, rng |-> r]}
    ELSE UNION { shuffle_from(Swap(x, i + 1, d.val + 1), i - 1, d.rng)
               : d \in randbelow(i + 1, r) }

random_shuffle(x, r) == shuffle_from(x, Len(x) - 1, r)

(***************************************************************************)
(* maze_gen.py                                                             *)
(***************************************************************************)
Deltas2 == << <<2, 0, 0>>, <<-2, 0, 0>>, <<0, 2, 0>>,
              <<0, -2, 0>>, <<0, 0, 2>>, <<0, 0, -2>> >>

\* the two neighbours along Z left out
neighbors_mut_no_z(x, y, z, gsx, gsy, gsz) ==
    LET cand == [i \in 1..4 |->
                   <<x + Deltas2[i][1], y + Deltas2[i][2], z + Deltas2[i][3]>>]
        inside(p) == /\ 1 <= p[1] /\ p[1] < gsx - 1
                     /\ 1 <= p[2] /\ p[2] < gsy - 1
                     /\ 1 <= p[3] /\ p[3] < gsz - 1
    IN  SelectSeq(cand, inside)

\* the interior bound taken one cell too small
neighbors_mut_bound(x, y, z, gsx, gsy, gsz) ==
    LET cand == [i \in 1..6 |->
                   <<x + Deltas2[i][1], y + Deltas2[i][2], z + Deltas2[i][3]>>]
        inside(p) == /\ 1 <= p[1] /\ p[1] < gsx - 2
                     /\ 1 <= p[2] /\ p[2] < gsy - 2
                     /\ 1 <= p[3] /\ p[3] < gsz - 2
    IN  SelectSeq(cand, inside)

neighbors_2step(x, y, z, gsx, gsy, gsz) ==
    LET cand == [i \in 1..6 |->
                   <<x + Deltas2[i][1], y + Deltas2[i][2], z + Deltas2[i][3]>>]
        inside(p) == /\ 1 <= p[1] /\ p[1] < gsx - 1
                     /\ 1 <= p[2] /\ p[2] < gsy - 1
                     /\ 1 <= p[3] /\ p[3] < gsz - 1
    IN  SelectSeq(cand, inside)

\* "Force odd sizes"
force_odd(n) == IF n % 2 = 0 THEN n + 1 ELSE n

Cells(gsx, gsy, gsz) == (0..(gsx - 1)) \X (0..(gsy - 1)) \X (0..(gsz - 1))

Start == <<1, 1, 1>>

\* "if seed is not None: random.seed(seed)"
seed_mut_ignored(sd, r) == r

seeded(sd, r) == IF sd # NoSeed THEN random_seed(sd) ELSE r

\* generate_maze up to the carving loop: seeding, odd sizes, the all-wall
\* grid with the start cell free, the stack and the visited set
gen_enter(rsx, rsy, rsz, sd, r) ==
    LET gsx == force_odd(rsx)
        gsy == force_odd(rsy)
        gsz == force_odd(rsz)
    IN  [pc |-> "loop", sx |-> gsx, sy |-> gsy, sz |-> gsz,
         grid |-> [c \in Cells(gsx, gsy, gsz) |->
                     IF c = Start THEN FREE ELSE WALL],
         start |-> Start, stack |-> <<Start>>, visited |-> {Start},
         goal |-> Start,
         seed |-> sd, rng |-> seeded(sd, r)]

\* "grid[x][y][z] = FREE" for the cells of S
carve(gr, S) == [p \in DOMAIN gr |-> IF p \in S THEN FREE ELSE gr[p]]

\* "wx, wy, wz = (cx + nx) // 2, (cy + ny) // 2, (cz + nz) // 2"
wall_mut_current(c, n) ==
    <<(c[1] + c[1]) \div 2, (c[2] + c[2]) \div 2, (c[3] + c[3]) \div 2>>

\* the midpoint taken on the far side of the neighbour
wall_mut_beyond(c, n) ==
    <<(3 * n[1] - c[1]) \div 2, (3 * n[2] - c[2]) \div 2,
      (3 * n[3] - c[3]) \div 2>>

wall_between(c, n) ==
    <<(c[1] + n[1]) \div 2, (c[2] + n[2]) \div 2, (c[3] + n[3]) \div 2>>

\* the wall towards the first shuffled neighbour carved before the test
\* "if (nx, ny, nz) in visited"
loop_iter_mut_carve_first(g) ==
    LET c == g.stack[Len(g.stack)]
        nbrs == neighbors_2step(c[1], c[2], c[3], g.sx, g.sy, g.sz)
        unvisited(p) == p \notin g.visited
        after(sh) ==
            LET unv == SelectSeq(sh.x, unvisited)
                g1 == IF sh.x = <<>> THEN g.grid
                      ELSE carve(g.grid, {wall_between(c, sh.x[1])})
            IN  IF unv = <<>>
                THEN [g EXCEPT !.grid = g1,
                               !.stack = SubSeq(g.stack, 1, Len(g.stack) - 1),
                               !.rng = sh.rng]
                ELSE LET n == unv[1]
                         w == wall_between(c, n)
                     IN  [g EXCEPT !.grid = carve(g1, {w, n}),
                                   !.visited = g.visited \cup {n},
                                   !.stack = Append(g.stack, n),
                                   !.rng = sh.rng]
    IN  { after(sh) : sh \in random_shuffle(nbrs, g.rng) }

\* "stack.pop()" left out of the iteration that finds no unvisited neighbour
loop_iter_mut_no_pop(g) ==
    LET c == g.stack[Len(g.stack)]
        nbrs == neighbors_2step(c[1], c[2], c[3], g.sx, g.sy, g.sz)
        unvisited(p) == p \notin g.visited
        after(sh) ==
            LET unv == SelectSeq(sh.x, unvisited)
            IN  IF unv = <<>>
                THEN [g EXCEPT !.rng = sh.rng]
                ELSE LET n == unv[1]
                         w == wall_between(c, n)
                     IN  [g EXCEPT !.grid = carve(g.grid, {w, n}),
                                   !.visited = g.visited \cup {n},
                                   !.stack = Append(g.stack, n),
                                   !.rng = sh.rng]
    IN  { after(sh) : sh \in random_shuffle(nbrs, g.rng) }

\* one iteration of "while stack": the possible states after it
loop_iter(g) ==
    LET c == g.stack[Len(g.stack)]
        nbrs == neighbors_2step(c[1], c[2], c[3], g.sx, g.sy, g.sz)
        unvisited(p) == p \notin g.visited
        after(sh) ==
            LET unv == SelectSeq(sh.x, unvisited)
            IN  IF unv = <<>>
                THEN [g EXCEPT !.stack = SubSeq(g.stack, 1, Len(g.stack) - 1),
                               !.rng = sh.rng]
                ELSE LET n == unv[1]
                         w == wall_between(c, n)
                     IN  [g EXCEPT !.grid = carve(g.grid, {w, n}),
                                   !.visited = g.visited \cup {n},
                                   !.stack = Append(g.stack, n),
                                   !.rng = sh.rng]
    IN  { after(sh) : sh \in random_shuffle(nbrs, g.rng) }

dist(a, b) == Abs(a[1] - b[1]) + Abs(a[2] - b[2]) + Abs(a[3] - b[3])

\* the i-th cell (from 0) of "for x in range(1, sx-1): for y ...: for z ..."
scan_cell(i, gsx, gsy, gsz) ==
    << 1 + (i \div ((gsy - 2) * (gsz - 2))),
       1 + ((i \div (gsz - 2)) % (gsy - 2)),
       1 + (i % (gsz - 2)) >>

\* the scan made with "for x in range(1, sx - 2)"
RECURSIVE scan_goal_mut_short(_, _, _, _)
scan_goal_mut_short(g, i, best, best_d) ==
    IF i >= (g.sx - 3) * (g.sy - 2) * (g.sz - 2) THEN best
    ELSE LET c == scan_cell(i, g.sx, g.sy, g.sz)
             d == dist(c, g.start)
         IN  IF g.grid[c] = FREE /\ d > best_d
             THEN scan_goal_mut_short(g, i + 1, c, d)
             ELSE scan_goal_mut_short(g, i + 1, best, best_d)

\* the goal scan: the first free interior cell of maximal distance to start
RECURSIVE scan_goal(_, _, _, _)
scan_goal(g, i, best, best_d) ==
    IF i >= (g.sx - 2) * (g.sy - 2) * (g.sz - 2) THEN best
    ELSE LET c == scan_cell(i, g.sx, g.sy, g.sz)
             d == dist(c, g.start)
         IN  IF g.grid[c] = FREE /\ d > best_d
             THEN scan_goal(g, i + 1, c, d)
             ELSE scan_goal(g, i + 1, best, best_d)

choose_goal(g) == [g EXCEPT !.goal = scan_goal(g, 0, g.start, -1),
                            !.pc = "done"]

\* the carving loop run to its end from every state of S
RECURSIVE carve_all(_)
carve_all(S) ==
    IF \A g \in S : g.stack = <<>> THEN S
    ELSE carve_all(UNION { IF g.stack = <<>> THEN {g} ELSE loop_iter(g)
                         : g \in S })

\* generate_maze(sx, sy, sz, seed) called when the generator is in state r:
\* the possible results (grid, start, goal) with the generator afterwards
generate_maze(rsx, rsy, rsz, sd, r) ==
    { choose_goal(g) : g \in carve_all({gen_enter(rsx, rsy, rsz, sd, r)}) }

\* generate_maze(d, sd) called with the generator Unknown, for every
\* requested size d and every choice of seed sd, computed once
Mazes ==
    UNION { { [dims |-> k[1], seed |-> k[2], maze |-> m]
              : m \in generate_maze(k[1][1], k[1][2], k[1][3], k[2], Unknown) }
          : k \in (Dims \X Dims \X Dims) \X SeedOpts }

\* the results of generate_maze(sx, sy, sz, seed) as reset calls it with
\* the generator in state r.  generate_maze uses r only through
\* seeded(sd, r), so when that is what it is for an Unknown generator the
\* results are those of Mazes
maze_results(rsx, rsy, rsz, sd, r) ==
    IF seeded(sd, r) = seeded(sd, Unknown)
    THEN { t.maze : t \in { e \in Mazes : /\ e.seed = sd
                                          /\ e.dims = <<rsx, rsy, rsz>> } }
    ELSE generate_maze(rsx, rsy, rsz, sd, r)

(***************************************************************************)
(* GenSpec: generate_maze step by step.                                    *)
(***************************************************************************)
GenIdle == [pc |-> "idle"]

\* no second instance
NoOther == [sx |-> 0]

EnvIdle ==
    /\ sx = 3 /\ sy = 3 /\ sz = 3 /\ max_steps = 0 /\ seed = NoSeed
    /\ grid = <<>> /\ agent = Start /\ goal = Start /\ steps = 0
    /\ last_move = ZeroVec /\ reward = 0 /\ done = FALSE
    /\ last_op = "none" /\ action = 0
    /\ other = NoOther

GenInit ==
    /\ rng = Unknown
    /\ \E a \in Dims, b \in Dims, c \in Dims, sd \in SeedOpts :
           gen = [pc |-> "call", sx |-> a, sy |-> b, sz |-> c, seed |-> sd]
    /\ EnvIdle

\* lines 30-48
GenEnter ==
    /\ gen.pc = "call"
    /\ gen' = gen_enter(gen.sx, gen.sy, gen.sz, gen.seed, rng)
    /\ rng' = gen'.rng
    /\ UNCHANGED <<envvars, other>>

\* lines 50-66: an iteration that finds an unvisited neighbour and carves
GenCarve ==
    /\ gen.pc = "loop" /\ gen.stack # <<>>
    /\ \E g \in loop_iter(gen) :
           /\ Len(g.stack) > Len(gen.stack)
           /\ gen' = g
           /\ rng' = g.rng
    /\ UNCHANGED <<envvars, other>>

\* lines 50-58, 68-69: an iteration that finds none and pops the stack
GenBacktrack ==
    /\ gen.pc = "loop" /\ gen.stack # <<>>
    /\ \E g \in loop_iter(gen) :
           /\ Len(g.stack) < Len(gen.stack)
           /\ gen' = g
           /\ rng' = g.rng
    /\ UNCHANGED <<envvars, other>>

\* lines 71-85
GenChooseGoal ==
    /\ gen.pc = "loop" /\ gen.stack = <<>>
    /\ gen' = choose_goal(gen)
    /\ UNCHANGED <<rng, envvars, other>>

GenNext == GenEnter \/ GenCarve \/ GenBacktrack \/ GenChooseGoal

GenSpec == GenInit /\ [][GenNext]_vars

\* generate_maze is sequential code that nothing suspends: a statement that
\* can run does run
GenFairSpec == GenSpec /\ WF_vars(GenNext)
(***************************************************************************)
(* env.py                                                                  *)
(***************************************************************************)
Actions == (0 - ExtraAct)..(NumActions - 1 + ExtraAct)

in_bounds(p) ==
    /\ 0 <= p[1] /\ p[1] < sx
    /\ 0 <= p[2] /\ p[2] < sy
    /\ 0 <= p[3] /\ p[3] < sz

\* the grid lookup left out
is_wall_mut_bounds_only(p) == ~in_bounds(p)

is_wall(p) == IF ~in_bounds(p) THEN TRUE ELSE grid[p] = WALL

\* the test "action < 0" left out: a negative index counts from the end
coerce_mut_negative(a) ==
    IF a >= NumActions THEN 0 ELSE IF a < 0 THEN a + NumActions ELSE a

\* "if action < 0 or action >= 6: action = 0"
coerce(a) == IF a < 0 \/ a >= NumActions THEN 0 ELSE a

\* the cell step(action) tries to enter
candidate(a) ==
    LET d == DIRS[coerce(a) + 1]
    IN  <<agent[1] + d[1], agent[2] + d[2], agent[3] + d[3]>>

\* the flags computed in the order -X, +X, -Y, +Y, -Z, +Z
danger_mut_order ==
    [i \in 1..NumActions |->
        LET d == DIRS[IF i % 2 = 1 THEN i + 1 ELSE i - 1]
        IN  IF is_wall(<<agent[1] + d[1], agent[2] + d[2], agent[3] + d[3]>>)
            THEN 1 ELSE 0]

\* _obs: "danger.append(1.0 if self._is_wall((nx, ny, nz)) else 0.0)" for
\* the directions of DIRS in order
danger ==
    [i \in 1..NumActions |->
        LET d == DIRS[i]
        IN  IF is_wall(<<agent[1] + d[1], agent[2] + d[2], agent[3] + d[3]>>)
            THEN 1 ELSE 0]

\* _obs: the six flags "goal is further along +X, -X, +Y, -Y, +Z, -Z"
goal_rel ==
    << IF goal[1] > agent[1] THEN 1 ELSE 0, IF goal[1] < agent[1] THEN 1 ELSE 0,
       IF goal[2] > agent[2] THEN 1 ELSE 0, IF goal[2] < agent[2] THEN 1 ELSE 0,
       IF goal[3] > agent[3] THEN 1 ELSE 0, IF goal[3] < agent[3] THEN 1 ELSE 0 >>

\* _obs: "(gx - ax) / max(1, (self.sx - 1))", the quotient kept as the pair
\* of its numerator and denominator
delta_norm(i, dim) ==
    <<goal[i] - agent[i], IF dim - 1 > 1 THEN dim - 1 ELSE 1>>

\* Maze3DEnv._obs: the 18 entries of the observation
obs ==
    danger \o goal_rel
    \o <<delta_norm(1, sx), delta_norm(2, sy), delta_norm(3, sz)>>
    \o last_move

\* the wall penalty taken as 0.02
base_reward_mut(blocked) == IF blocked THEN -1 - 2 ELSE -1

\* "if self._is_wall(nxt): reward -= 0.20" on the base reward -0.01
base_reward(blocked) == IF blocked THEN -1 - 20 ELSE -1

\* the sign of the shaping term reversed
shaping_mut_sign(prev_dist, new_dist) == (new_dist - prev_dist) * 10

\* "reward += (prev_dist - new_dist) * 0.10"
shaping(prev_dist, new_dist) == (prev_dist - new_dist) * 10

\* "if self.agent == self.goal: reward += 10.0"
goal_bonus(at_goal) == IF at_goal THEN 1000 ELSE 0

\* the timeout tested with > instead of >=
timeout_mut_strict(n) == n > max_steps

\* "if self.steps >= self.max_steps: done = True"
timeout(n) == n >= max_steps

\* "done = True" left out of the goal branch
step_mut_goal_not_done(a) ==
    LET d == DIRS[coerce(a) + 1]
        prev_dist == dist(agent, goal)
        nxt == candidate(a)
        blocked == is_wall(nxt)
        new_agent == IF blocked THEN agent ELSE nxt
        new_dist == dist(new_agent, goal)
        new_steps == steps + 1
        at_goal == new_agent = goal
    IN  [agent |-> new_agent,
         last_move |-> IF blocked THEN ZeroVec ELSE d,
         steps |-> new_steps,
         reward |-> base_reward(blocked) + shaping(prev_dist, new_dist)
                    + goal_bonus(at_goal),
         done |-> timeout(new_steps)]

\* "self.steps += 1" made in the branch of the move only
step_mut_blocked_not_counted(a) ==
    LET d == DIRS[coerce(a) + 1]
        prev_dist == dist(agent, goal)
        nxt == candidate(a)
        blocked == is_wall(nxt)
        new_agent == IF blocked THEN agent ELSE nxt
        new_dist == dist(new_agent, goal)
        new_steps == IF blocked THEN steps ELSE steps + 1
        at_goal == new_agent = goal
    IN  [agent |-> new_agent,
         last_move |-> IF blocked THEN ZeroVec ELSE d,
         steps |-> new_steps,
         reward |-> base_reward(blocked) + shaping(prev_dist, new_dist)
                    + goal_bonus(at_goal),
         done |-> at_goal \/ timeout(new_steps)]

\* "self.last_move = (dx, dy, dz)" made before the wall test
step_mut_last_move_always(a) ==
    LET d == DIRS[coerce(a) + 1]
        prev_dist == dist(agent, goal)
        nxt == candidate(a)
        blocked == is_wall(nxt)
        new_agent == IF blocked THEN agent ELSE nxt
        new_dist == dist(new_agent, goal)
        new_steps == steps + 1
        at_goal == new_agent = goal
    IN  [agent |-> new_agent,
         last_move |-> d,
         steps |-> new_steps,
         reward |-> base_reward(blocked) + shaping(prev_dist, new_dist)
                    + goal_bonus(at_goal),
         done |-> at_goal \/ timeout(new_steps)]

\* Maze3DEnv.step(action) in the current state: the new episode state and
\* the StepResult
step(a) ==
    LET d == DIRS[coerce(a) + 1]
        prev_dist == dist(agent, goal)
        nxt == candidate(a)
        blocked == is_wall(nxt)
        new_agent == IF blocked THEN agent ELSE nxt
        new_dist == dist(new_agent, goal)
        new_steps == steps + 1
        at_goal == new_agent = goal
    IN  [agent |-> new_agent,
         last_move |-> IF blocked THEN ZeroVec ELSE d,
         steps |-> new_steps,
         reward |-> base_reward(blocked) + shaping(prev_dist, new_dist)
                    + goal_bonus(at_goal),
         done |-> at_goal \/ timeout(new_steps)]

\* Maze3DEnv.__init__: the configuration, then reset()
Init ==
    /\ gen = GenIdle
    /\ sx \in Dims /\ sy \in Dims /\ sz \in Dims
    /\ max_steps \in 0..MaxMaxSteps
    /\ seed \in SeedOpts
    /\ \E m \in maze_results(sx, sy, sz, seed, Unknown) :
           /\ grid = m.grid /\ agent = m.start /\ goal = m.goal
           /\ rng = m.rng
    /\ steps = 0
    /\ last_move = ZeroVec
    /\ reward = 0 /\ done = FALSE
    /\ last_op = "init" /\ action = 0
    /\ other = NoOther

\* "self.last_move = (0, 0, 0)" left out of reset
Reset_mut_keeps_last_move ==
    /\ \E m \in maze_results(sx, sy, sz, seed, rng) :
           /\ grid' = m.grid /\ agent' = m.start /\ goal' = m.goal
           /\ rng' = m.rng
    /\ steps' = 0
    /\ reward' = 0 /\ done' = FALSE /\ action' = 0
    /\ last_op' = "reset"
    /\ UNCHANGED <<gen, sx, sy, sz, max_steps, seed, other, last_move>>

\* Maze3DEnv.reset; the new episode has no StepResult yet
Reset ==
    /\ \E m \in maze_results(sx, sy, sz, seed, rng) :
           /\ grid' = m.grid /\ agent' = m.start /\ goal' = m.goal
           /\ rng' = m.rng
    /\ steps' = 0
    /\ last_move' = ZeroVec
    /\ reward' = 0 /\ done' = FALSE /\ action' = 0
    /\ last_op' = "reset"
    /\ UNCHANGED <<gen, sx, sy, sz, max_steps, seed, other>>

\* Maze3DEnv.step
Step ==
    /\ steps < StepCap
    /\ \E act \in Actions :
           LET res == step(act)
           IN  /\ agent' = res.agent
               /\ last_move' = res.last_move
               /\ steps' = res.steps
               /\ reward' = res.reward
               /\ done' = res.done /\ action' = act
    /\ last_op' = "step"
    /\ UNCHANGED <<rng, gen, sx, sy, sz, max_steps, seed, grid, goal, other>>

\* code outside the environment (the training loop's exploration and batch
\* sampling) draws from the process-wide generator: the model does not
\* follow how many words it takes, the generator is Unknown afterwards
RandomUse ==
    /\ rng # Unknown
    /\ rng' = Unknown
    /\ UNCHANGED <<gen, envvars, other>>

Next == Reset \/ Step \/ RandomUse

Spec == Init /\ [][Next]_vars

(***************************************************************************)
(* Two environments in one process.  The first is the one of the variables *)
(* above; the second is the record "other", with the configuration and the *)
(* fields reset() writes.  maze_gen.py seeds and shuffles with the module  *)
(* "random", of which a process has one: both instances use rng.           *)
(***************************************************************************)
\* Maze3DEnv.reset of the instance o, the process-wide generator being r:
\* the instance afterwards and the generator afterwards
other_reset(o, r) ==
    { [env |-> [sx |-> o.sx, sy |-> o.sy, sz |-> o.sz, seed |-> o.seed,
                grid |-> m.grid, agent |-> m.start, goal |-> m.goal,
                last_move |-> ZeroVec, steps |-> 0],
       rng |-> m.rng] : m \in maze_results(o.sx, o.sy, o.sz, o.seed, r) }

\* a seeded instance is constructed, then a second one, seeded or not (two
\* unseeded instances leave the generator Unknown whatever they do)
TwoInit ==
    /\ gen = GenIdle
    /\ sx \in Dims /\ sy \in Dims /\ sz \in Dims
    /\ max_steps \in 0..MaxMaxSteps
    /\ seed \in Seeds
    /\ steps = 0
    /\ last_move = ZeroVec
    /\ reward = 0 /\ done = FALSE
    /\ last_op = "init" /\ action = 0
    /\ \E m \in maze_results(sx, sy, sz, seed, Unknown) :
           /\ grid = m.grid /\ agent = m.start /\ goal = m.goal
           /\ \E osx \in Dims, osy \in Dims, osz \in Dims, oseed \in SeedOpts :
                  \E res \in other_reset([sx |-> osx, sy |-> osy, sz |-> osz,
                                           seed |-> oseed], m.rng) :
                      /\ other = res.env
                      /\ rng = res.rng

\* reset() of the second instance
OtherReset ==
    /\ \E res \in other_reset(other, rng) :
           /\ other' = res.env
           /\ rng' = res.rng
    /\ UNCHANGED <<gen, envvars>>

\* Maze3DEnv.step(a) of the instance o: the instance afterwards (step draws
\* nothing from the generator)
other_step(o, a) ==
    LET d == DIRS[coerce(a) + 1]
        nxt == <<o.agent[1] + d[1], o.agent[2] + d[2], o.agent[3] + d[3]>>
        inside == /\ 0 <= nxt[1] /\ nxt[1] < o.sx
                  /\ 0 <= nxt[2] /\ nxt[2] < o.sy
                  /\ 0 <= nxt[3] /\ nxt[3] < o.sz
        blocked == IF ~inside THEN TRUE ELSE o.grid[nxt] = WALL
    IN  [o EXCEPT !.agent = IF blocked THEN o.agent ELSE nxt,
                  !.last_move = IF blocked THEN ZeroVec ELSE d,
                  !.steps = o.steps + 1]

\* step() of the second instance
OtherStep ==
    /\ other.steps < TwoStepCap
    /\ \E act \in Actions : other' = other_step(other, act)
    /\ UNCHANGED <<rng, gen, envvars>>

\* step() of the first instance
TwoStep == steps < TwoStepCap /\ Step

TwoNext == Reset \/ TwoStep \/ OtherReset \/ OtherStep \/ RandomUse

TwoSpec == TwoInit /\ [][TwoNext]_vars
(***************************************************************************)
(* Properties.                                                             *)
(***************************************************************************)
Max(a, b) == IF a > b THEN a ELSE b

Moves(p) == { <<p[1] + DIRS[i][1], p[2] + DIRS[i][2], p[3] + DIRS[i][3]>>
              : i \in 1..NumActions }

\* the cells the agent can be moved to from the cells of S by step calls
RECURSIVE env_reach(_)
env_reach(S) ==
    LET T == S \cup { q \in UNION { Moves(p) : p \in S } : ~is_wall(q) }
    IN  IF T = S THEN S ELSE env_reach(T)

FreeOf(g) == { c \in DOMAIN g : g[c] = FREE }

\* the free cells of grid g connected to the cells of S by free cells
RECURSIVE grid_reach(_, _)
grid_reach(g, S) ==
    LET T == S \cup { q \in UNION { Moves(p) : p \in S } :
                        q \in DOMAIN g /\ g[q] = FREE }
    IN  IF T = S THEN S ELSE grid_reach(g, T)

\* twice the number of pairs of adjacent free cells
TwiceFreeEdges(g) ==
    Cardinality({ e \in FreeOf(g) \X FreeOf(g) : dist(e[1], e[2]) = 1 })

\* the episode is over: the last step of the episode returned done
EpisodeOver == last_op = "step" /\ done

\* C1: in every state of the environment the agent position is within
\* [0, dim-1] of the configured dimensions on every axis and its grid cell
\* is FREE.
C1_AgentInBoundsAndFree ==
    /\ in_bounds(agent)
    /\ agent \in DOMAIN grid
    /\ grid[agent] = FREE

\* a step has moved the agent to the last coordinate of an even configured
\* dimension
C1_Witness ==
    /\ last_op = "step" /\ last_move # ZeroVec
    /\ sx % 2 = 0 /\ agent[1] = sx - 1

\* C2: after every step, the returned done flag is true exactly when the
\* agent is on the goal or the step counter is at least max_steps.
C2_DoneIff ==
    last_op = "step" => (done <=> (agent = goal \/ steps >= max_steps))

\* a step moved the agent onto the goal at the very step the counter
\* reached max_steps
C2_Witness ==
    /\ last_op = "step" /\ last_move # ZeroVec /\ done
    /\ agent = goal /\ steps = max_steps

\* C3 as claimed, in an environment with a positive max_steps: the step
\* counter never exceeds max_steps.
C3_StepsNeverPastMax == max_steps >= 1 => (0 <= steps /\ steps <= max_steps)

\* C3 amended: an operation performed while the episode is not over (no
\* step of it has returned done) leaves the counter within
\* 0 .. max(1, max_steps).
C3_StepsBoundedUntilDone ==
    [][ ~EpisodeOver => (0 <= steps' /\ steps' <= Max(1, max_steps)) ]_vars

\* the counter reached max_steps by steps alone and done was returned
C3_Witness ==
    /\ last_op = "step" /\ done /\ agent # goal
    /\ steps = max_steps /\ max_steps >= 2

\* C4: the grid returned by generate_maze is a perfect maze: its free cells
\* are connected and have one edge less than cells, so the graph is a tree
\* and the path from the start to any free cell is unique.
C4_PerfectMaze ==
    gen.pc = "done" =>
        /\ grid_reach(gen.grid, {gen.start}) = FreeOf(gen.grid)
        /\ TwiceFreeEdges(gen.grid) = 2 * (Cardinality(FreeOf(gen.grid)) - 1)

\* an unseeded 5x5x5 maze (eight cells on a cube, where a cycle could close)
C4_Witness ==
    /\ gen.pc = "done" /\ gen.seed = NoSeed
    /\ gen.sx = 5 /\ gen.sy = 5 /\ gen.sz = 5
    /\ Cardinality(FreeOf(gen.grid)) = 15

\* C5: after construction and after every reset, the goal held by the
\* environment is a FREE cell that step calls can reach from the start cell,
\* where the agent is.
C5_GoalReachable ==
    last_op \in {"init", "reset"} =>
        /\ agent = Start
        /\ goal \in DOMAIN grid
        /\ grid[goal] = FREE
        /\ goal \in env_reach({agent})

\* a reset produced a maze whose goal is away from the start, in an
\* environment configured with an even dimension
C5_Witness ==
    /\ last_op = "reset" /\ goal # Start /\ sy % 2 = 0
    /\ dist(goal, Start) >= 4

\* C6: in an environment with a seed no operation changes the maze: every
\* reset regenerates the same grid and goal and puts the agent on the
\* start, whatever was drawn from the generator since the last one.
C6_SeededResetSameMaze ==
    [][ seed # NoSeed =>
          /\ grid' = grid /\ goal' = goal
          /\ (last_op' = "reset" => agent' = Start) ]_vars

\* a seeded environment of requested size 4x4x4 has been reset: the maze
\* was generated a second time, with draws from the generator
C6_Witness ==
    /\ last_op = "reset" /\ seed # NoSeed
    /\ rng.seed = seed /\ rng.pos > 0
    /\ Cardinality(FreeOf(grid)) = 15

\* C7 as claimed: the goal returned by generate_maze differs from the start.
C7_GoalNotStart == gen.pc = "done" => gen.goal # gen.start

\* C7 amended: the goal differs from the start when some normalized
\* dimension is at least 5.
C7_GoalNotStartIfRoom ==
    (gen.pc = "done" /\ (gen.sx >= 5 \/ gen.sy >= 5 \/ gen.sz >= 5))
        => gen.goal # gen.start

\* a maze of normalized size 3x3x5: two cells, the goal is the second
C7_Witness ==
    /\ gen.pc = "done" /\ gen.sx = 3 /\ gen.sy = 3 /\ gen.sz = 5
    /\ gen.goal = <<1, 1, 3>>

\* C8 as claimed: a step whose candidate cell is a wall or outside the grid
\* leaves the agent in place, zeroes last_move and returns -0.21.
C8_BlockedRewardAlways ==
    \A a \in Actions :
        is_wall(candidate(a)) =>
            /\ step(a).agent = agent
            /\ step(a).last_move = ZeroVec
            /\ step(a).reward = -21

\* C8 amended: such a step leaves the agent in place, zeroes last_move and
\* returns -0.21 when the agent is not on the goal, and -0.21 + 10.0 when
\* it is.
C8_BlockedReward ==
    \A a \in Actions :
        is_wall(candidate(a)) =>
            /\ step(a).agent = agent
            /\ step(a).last_move = ZeroVec
            /\ step(a).reward = IF agent = goal THEN 979 ELSE -21

\* a blocked step was taken away from the goal
C8_Witness ==
    /\ last_op = "step" /\ last_move = ZeroVec /\ agent # goal
    /\ is_wall(candidate(action)) /\ reward = -21

\* C9: a step that moves the agent onto the goal returns
\* -0.01 + 0.10 + 10.0 = 10.09 and done.
C9_GoalReward ==
    (last_op = "step" /\ last_move # ZeroVec /\ agent = goal)
        => (reward = 1009 /\ done)

\* a step moved the agent onto the goal before the timeout
C9_Witness ==
    /\ last_op = "step" /\ last_move # ZeroVec /\ agent = goal
    /\ steps < max_steps

\* C10: step with an action outside 0..5 gives the same state, reward and
\* done flag as step(0).
C10_OutOfRangeIsZero ==
    \A a \in Actions : (a < 0 \/ a >= NumActions) => step(a) = step(0)

\* a step with a negative action has moved the agent along +X
C10_Witness ==
    /\ last_op = "step" /\ action < 0 /\ last_move = DIRS[1]
\* C11: an environment is never constructed with a non-positive max_steps:
\* every state on which reset or step can be called has max_steps >= 1.
C11_MaxStepsPositive == max_steps >= 1

\* the mazes the next reset() of the second instance can produce
OtherMazes(r) ==
    { [grid |-> res.env.grid, goal |-> res.env.goal]
      : res \in other_reset(other, r) }

\* C12: the operations of one instance never change the mazes the resets
\* of the other instance produce, no pseudorandom state being shared: in
\* every state the next reset of the second instance can produce what it
\* could produce had the first instance never drawn from or seeded a
\* generator.
C12_OtherMazesIndependent == OtherMazes(rng) = OtherMazes(Unknown)
\* the episode state is the one reset() builds: a maze generate_maze returns
\* for the configuration, the agent on its start, nothing of an earlier
\* episode
FreshEpisode ==
    /\ \E m \in maze_results(sx, sy, sz, seed, Unknown) :
           /\ grid = m.grid /\ goal = m.goal /\ agent = m.start
    /\ agent = Start
    /\ last_move = ZeroVec
    /\ steps = 0

\* C13: whatever the state reset() is called in (mid-episode, after done,
\* after any number of steps), the state after it has agent = start =
\* (1,1,1), the goal generate_maze returned, last_move = (0,0,0) and the
\* step counter 0.
C13_ResetReplacesEpisode == [][last_op' = "reset" => FreshEpisode']_vars

\* a reset has been made and left a maze whose goal is not the start
C13_Witness == last_op = "reset" /\ FreshEpisode /\ goal # Start
\* C14: in every state, for each direction index i in 0..5 (+X, -X, +Y,
\* -Y, +Z, -Z), entry i of the observation is 1 exactly when step(i) would
\* leave the agent where it is, and 0 exactly when step(i) would move it.
C14_DangerFlags ==
    /\ Len(obs) = 18
    /\ \A i \in 0..(NumActions - 1) :
           /\ obs[i + 1] \in {0, 1}
           /\ obs[i + 1] = 1 <=> step(i).agent = agent
           /\ obs[i + 1] = 0 <=> step(i).agent # agent

\* after a move the agent stands where some directions are open and others
\* are not
C14_Witness ==
    /\ last_op = "step" /\ agent # Start
    /\ \E i, j \in 1..NumActions : obs[i] = 1 /\ obs[j] = 0
\* the components of v that are not 0
NonZero(v) == {k \in 1..3 : v[k] # 0}

\* C15: in every state each component of last_move is in {-1, 0, 1} and at
\* most one is not 0; last_move is (0,0,0) after a reset, and after a step
\* it is (0,0,0) exactly when that step was blocked and otherwise the new
\* agent position minus the previous one.
C15_LastMove ==
    /\ [](/\ \A k \in 1..3 : last_move[k] \in {-1, 0, 1}
          /\ Cardinality(NonZero(last_move)) <= 1
          /\ last_op \in {"init", "reset"} => last_move = ZeroVec)
    /\ [][steps' = steps + 1 =>
            /\ last_move' = ZeroVec <=> is_wall(candidate(action'))
            /\ \A k \in 1..3 : last_move'[k] = agent'[k] - agent[k]]_vars

\* the second or a later step of an episode moved the agent
C15_Witness ==
    /\ last_op = "step" /\ steps >= 2
    /\ last_move # ZeroVec
    /\ agent # Start
\* C16: step changes only the agent, last_move and the step counter, which
\* every call, blocked or not, increases by exactly 1; the grid, the goal,
\* the configured sizes, max_steps and the seed are the same after any
\* step.  (The observation is the operator obs of the state: computing it
\* has no effect to state.)
C16_StepFrame ==
    /\ [](\A a \in Actions : step(a).steps = steps + 1)
    /\ [][(last_op' = "step" /\ steps' # steps) =>
            /\ steps' = steps + 1
            /\ grid' = grid /\ goal' = goal
            /\ sx' = sx /\ sy' = sy /\ sz' = sz
            /\ max_steps' = max_steps /\ seed' = seed]_vars

\* a blocked step away from the start has been counted
C16_Witness ==
    /\ last_op = "step" /\ steps >= 2
    /\ last_move = ZeroVec
    /\ agent # Start
\* the cells of the normalized grid g.sx x g.sy x g.sz with three odd
\* coordinates, each in 1..dim-2
OddCells(g) ==
    { c \in Cells(g.sx, g.sy, g.sz) :
        \A k \in 1..3 : c[k] % 2 = 1 /\ 1 <= c[k] /\ c[k] <= <<g.sx, g.sy, g.sz>>[k] - 2 }

\* C17: for every size and every outcome of the shuffles the carving loop
\* of generate_maze ends, the stack becoming empty; every iteration either
\* marks an odd cell not visited before and pushes it, or pops the stack.
C17_CarvingTerminates ==
    /\ <>(gen.pc = "loop" /\ gen.stack = <<>>)
    /\ [][(gen.pc = "loop" /\ gen'.pc = "loop") =>
            \/ \E n \in OddCells(gen) \ gen.visited :
                   /\ gen'.visited = gen.visited \cup {n}
                   /\ gen'.stack = Append(gen.stack, n)
            \/ /\ gen.stack # <<>>
               /\ gen'.stack = SubSeq(gen.stack, 1, Len(gen.stack) - 1)
               /\ gen'.visited = gen.visited]_vars

\* the loop has ended on a grid of eight odd cells, all of them visited
C17_Witness ==
    /\ gen.pc = "loop" /\ gen.stack = <<>>
    /\ Cardinality(gen.visited) = 8
\* C18: when the carving loop has ended (stack empty), every interior cell
\* with three odd coordinates has been visited and is FREE.
C18_AllOddCellsCarved ==
    (gen.pc \in {"loop", "done"} /\ gen.stack = <<>>) =>
        \A c \in OddCells(gen) : c \in gen.visited /\ gen.grid[c] = FREE

\* the loop has ended on a grid with odd cells on two layers along Z
C18_Witness ==
    /\ gen.pc = "loop" /\ gen.stack = <<>>
    /\ gen.sz = 5
    /\ \E c \in gen.visited : c[3] = 3
\* the interior corner opposite the start
FarCorner(g) == <<g.sx - 2, g.sy - 2, g.sz - 2>>

\* the interior cells of the grid of g
Interior(g) == (1..(g.sx - 2)) \X (1..(g.sy - 2)) \X (1..(g.sz - 2))

\* C19: for every size and every seed the goal generate_maze chooses is
\* the interior corner (sx'-2, sy'-2, sz'-2) of the normalized sizes; that
\* cell is FREE and every other FREE interior cell is strictly nearer to
\* the start, so neither the seed nor the scan order decides the goal.
C19_GoalIsFarCorner ==
    gen.pc = "done" =>
        /\ gen.goal = FarCorner(gen)
        /\ gen.grid[FarCorner(gen)] = FREE
        /\ \A c \in Interior(gen) :
               (gen.grid[c] = FREE /\ c # FarCorner(gen)) =>
                   dist(c, gen.start) < dist(FarCorner(gen), gen.start)

\* a seeded call for a 5 x 5 x 5 grid has returned the goal (3,3,3)
C19_Witness ==
    /\ gen.pc = "done" /\ gen.seed # NoSeed
    /\ gen.sx = 5 /\ gen.sy = 5 /\ gen.sz = 5
    /\ gen.goal = <<3, 3, 3>>
\* the coordinates of c that are even
EvenCoords(c) == {k \in 1..3 : c[k] % 2 = 0}

\* c lies on the outer shell of the grid of g
OnShell(g, c) ==
    \E k \in 1..3 : c[k] = 0 \/ c[k] = <<g.sx, g.sy, g.sz>>[k] - 1

\* C20: at every point of the carving and on return from generate_maze,
\* every cell of the outer shell of the normalized grid is WALL and every
\* FREE cell has at most one even coordinate; the wall cell between the
\* current cell and any neighbour offered for it lies inside the grid.
C20_ShellAndParity ==
    gen.pc \in {"loop", "done"} =>
        /\ \A c \in DOMAIN gen.grid :
               /\ OnShell(gen, c) => gen.grid[c] = WALL
               /\ gen.grid[c] = FREE => Cardinality(EvenCoords(c)) <= 1
        /\ gen.stack # <<>> =>
               LET c == gen.stack[Len(gen.stack)]
                   nbrs == neighbors_2step(c[1], c[2], c[3],
                                           gen.sx, gen.sy, gen.sz)
               IN  \A i \in 1..Len(nbrs) :
                       /\ wall_between(c, nbrs[i]) \in DOMAIN gen.grid
                       /\ ~OnShell(gen, wall_between(c, nbrs[i]))

\* the carving is under way: walls between odd cells have been opened and
\* the current cell has neighbours
C20_Witness ==
    /\ gen.pc = "loop" /\ Len(gen.stack) >= 3
    /\ \E c \in DOMAIN gen.grid :
           gen.grid[c] = FREE /\ Cardinality(EvenCoords(c)) = 1
====
